---- MODULE Spec2Model ----
(***************************************************************************)
(* GoGoGadgetGravity: the physics engine (package physics), the            *)
(* application state (package state) and the event handlers of package     *)
(* main, as a state machine.                                               *)
(*                                                                         *)
(* Numbers.  Masses are integers.  Charges, strengths and the three tuning *)
(* constants are exact rationals <<n, d>>.  Positions and velocities live  *)
(* on a grid of Res points per unit of length; a vector is <<x, y>> in     *)
(* grid points, or NaNVec when its components are not-a-number.  The       *)
(* averaged force accelerations of a tick are real numbers the grid does   *)
(* not resolve: the model keeps whether they are numbers or not-a-number   *)
(* and moves no particle by force, so motion comes from the velocities of  *)
(* loaded snapshots, from bounces, merges and walls.                       *)
(***************************************************************************)
EXTENDS Integers, Sequences, FiniteSets, TLC

VARIABLES
    Engine,     \* physics.Engine (EngineData)
    State,      \* main.State (state.Data)
    paused,     \* main.paused
    status,     \* what the last handler reported through GUI.SetStatusText
    crashed,    \* the process died of a run-time panic
    ticks,      \* ticks run since the roster was last replaced (bounds the run)
    loop,       \* the physicsLoop goroutine: where it is, and the locals of its tick
    gui         \* the GUI thread: "idle", or "sending" on physicsDoneChan

vars == <<Engine, State, paused, status, crashed, ticks, loop, gui>>

----------------------------------------------------------------------------
(* Bounds of the model *)

\* grid points per unit of length
Res == 2
\* ticks explored after a generation, load or reset
MaxTicks == 4

----------------------------------------------------------------------------
(* Rational numbers <<n, d>>, d > 0, in lowest terms *)

Abs(x) == IF x < 0 THEN -x ELSE x

Min(a, b) == IF a < b THEN a ELSE b

Max(a, b) == IF a > b THEN a ELSE b

RECURSIVE GCD(_, _)
GCD(a, b) == IF b = 0 THEN a ELSE GCD(b, a % b)

Rat(n, d) ==
    LET g == GCD(Abs(n), Abs(d))
        s == IF d < 0 THEN -1 ELSE 1
    IN  <<(s * n) \div g, (s * d) \div g>>

RInt(n) == <<n, 1>>

RAdd(a, b) == Rat(a[1] * b[2] + b[1] * a[2], a[2] * b[2])

RMulInt(a, k) == Rat(a[1] * k, a[2])

RDivInt(a, k) == Rat(a[1], a[2] * k)

RLess(a, b) == a[1] * b[2] < b[1] * a[2]

RAbs(a) == <<Abs(a[1]), a[2]>>

RMin(a, b) == IF RLess(a, b) THEN a ELSE b

RMax(a, b) == IF RLess(b, a) THEN a ELSE b

\* math.Signbit on a charge (no negative zero arises from the values modelled)
Signbit(a) == a[1] < 0

----------------------------------------------------------------------------
(* Vectors (github.com/atedja/go-vector) on the grid *)

NaNVec == <<>>

IsNaN(v) == v = NaNVec

\* vector.Add
VAdd(a, b) == IF IsNaN(a) \/ IsNaN(b) THEN NaNVec ELSE <<a[1] + b[1], a[2] + b[2]>>

\* Vector.Scale by an integer
VScale(a, k) == IF IsNaN(a) THEN NaNVec ELSE <<a[1] * k, a[2] * k>>

\* Vector.Scale by k/d, rounded down to the grid
VScaleDiv(a, k, d) ==
    IF IsNaN(a) THEN NaNVec ELSE <<(a[1] * k) \div d, (a[2] * k) \div d>>

\* the square of Vector.Magnitude of vector.Subtract(a, b), in grid points
Dist2(a, b) == (a[1] - b[1]) * (a[1] - b[1]) + (a[2] - b[2]) * (a[2] - b[2])

\* v - 2 (v . n) n for the unit vector n along axis (1 = x, 2 = y)
Reflect(v, axis) ==
    IF IsNaN(v) THEN NaNVec
    ELSE IF axis = 1 THEN <<-v[1], v[2]>> ELSE <<v[1], -v[2]>>

\* Go's int(f) of a grid value: truncation toward zero, in whole units
IntOf(x) == IF x >= 0 THEN x \div Res ELSE -((-x) \div Res)

----------------------------------------------------------------------------
(* Particle (physics/particles.go) *)

\* the nil *Particle
NilId == 0

\* Radius as SetMass computes it: max(round(sqrt(mass) / (2 sqrt(pi))), 1), that
\* is the least k >= 1 with mass < pi (2k+1)^2, pi taken as 355/113 (exact for
\* the integer masses of the model)
RECURSIVE RadiusFrom(_, _)
RadiusFrom(mass, k) ==
    IF 113 * mass < 355 * (2 * k + 1) * (2 * k + 1) THEN k ELSE RadiusFrom(mass, k + 1)

SetMass(p, mass) == [p EXCEPT !.Mass = mass, !.Radius = RadiusFrom(mass, 1)]

SetCloseCharge(p, closeCharge) ==
    [p EXCEPT !.CloseCharge = RMax(RInt(-1), RMin(closeCharge, RInt(1)))]

SetFarCharge(p, farCharge) ==
    [p EXCEPT !.FarCharge = RMax(RInt(0), RMin(farCharge, RInt(1)))]

\* sets the proxies and makes the empty positionHistory and MergingWith
initializeWithValues(p, mass, closeCharge, farCharge) ==
    [SetFarCharge(SetCloseCharge(SetMass(p, mass), closeCharge), farCharge)
        EXCEPT !.positionHistory = <<>>, !.MergingWith = {}]

\* initialize: a deserialized particle gets its proxies and empty lists
initialize(p) == initializeWithValues(p, p.Mass, p.CloseCharge, p.FarCharge)

\* a zero-valued Particle struct at address id, holding a position
ZeroParticle(id, position) ==
    [id |-> id, Mass |-> 0, Radius |-> 0, CloseCharge |-> RInt(0), FarCharge |-> RInt(0),
     Position |-> position, Velocity |-> <<0, 0>>,
     trackHistory |-> FALSE, historySize |-> 0, positionHistory |-> <<>>,
     merging |-> FALSE, MergingWith |-> {}, bouncing |-> FALSE, bouncingAgainst |-> NilId]

NewParticle(id, mass, closeCharge, farCharge, position) ==
    initializeWithValues(ZeroParticle(id, position), mass, closeCharge, farCharge)

Clone(id, p) ==
    [NewParticle(id, p.Mass, p.CloseCharge, p.FarCharge, p.Position)
        EXCEPT !.Velocity = p.Velocity]

\* UpdatePosition without the eviction of the oldest entry (a variant the
\* bound on the history must tell apart from UpdatePosition)
UpdatePositionKeepAll(p) ==
    [p EXCEPT !.positionHistory = IF p.trackHistory THEN Append(@, p.Position) ELSE @,
              !.Position = VAdd(p.Position, p.Velocity)]

\* appends the position held before the update to the history (FIFO of
\* historySize entries), then adds the velocity to the position
UpdatePosition(p) ==
    LET appended == IF p.trackHistory THEN Append(p.positionHistory, p.Position)
                    ELSE p.positionHistory
        kept == IF p.trackHistory /\ Len(appended) > p.historySize
                THEN Tail(appended) ELSE appended
    IN  [p EXCEPT !.positionHistory = kept, !.Position = VAdd(p.Position, p.Velocity)]

----------------------------------------------------------------------------
(* updateParticleVelocities (physics/particle_update.go) *)

\* mag < float64(p.Radius + o.Radius); false when mag is not-a-number
Overlapping(p, o) ==
    /\ ~IsNaN(p.Position) /\ ~IsNaN(o.Position)
    /\ Dist2(p.Position, o.Position) <
           ((p.Radius + o.Radius) * Res) * ((p.Radius + o.Radius) * Res)

\* mag > factor * float64(p.Radius + o.Radius); false when mag is not-a-number
Separated(p, o, factor) ==
    /\ ~IsNaN(p.Position) /\ ~IsNaN(o.Position)
    /\ factor[2] * factor[2] * Dist2(p.Position, o.Position) >
           factor[1] * factor[1] * ((p.Radius + o.Radius) * Res) * ((p.Radius + o.Radius) * Res)

\* the merge rule without the allowMerge switch (a variant the bounces of a
\* run with merging switched off must tell apart from ShouldMerge)
ShouldMergeAlways(E, p, o) ==
    /\ Max(p.Mass, o.Mass) * E.mergeMassRatioThreshold[2] >
           E.mergeMassRatioThreshold[1] * Min(p.Mass, o.Mass)
    /\ \/ Signbit(p.CloseCharge) # Signbit(o.CloseCharge)
       \/ RLess(RAdd(RAbs(p.CloseCharge), RAbs(o.CloseCharge)), E.mergeCloseChargeThreshold)

\* the merge rule of a new collision
ShouldMerge(E, p, o) ==
    /\ E.AllowMerge
    /\ Max(p.Mass, o.Mass) * E.mergeMassRatioThreshold[2] >
           E.mergeMassRatioThreshold[1] * Min(p.Mass, o.Mass)
    /\ \/ Signbit(p.CloseCharge) # Signbit(o.CloseCharge)
       \/ RLess(RAdd(RAbs(p.CloseCharge), RAbs(o.CloseCharge)), E.mergeCloseChargeThreshold)

\* the axis of the bounce normal: y (2) when the pair moves mostly along x
BounceAxis(p, o) ==
    IF /\ ~IsNaN(p.Velocity) /\ ~IsNaN(o.Velocity)
       /\ Abs(p.Velocity[1]) + Abs(o.Velocity[1]) > Abs(p.Velocity[2]) + Abs(o.Velocity[2])
    THEN 2 ELSE 1

\* a pass of the inner loop that sets the bounce state on both sides (a
\* variant the frame of a bounce must tell apart from PairStep)
PairStepBothBounce(E, ps, i, j, acc) ==
    LET p == ps[i]
        o == ps[j]
    IN  IF i = j \/ o.id \in p.MergingWith THEN [ps |-> ps, acc |-> acc]
        ELSE IF p.bouncing /\ p.bouncingAgainst = o.id
        THEN [ps |-> IF Separated(p, o, E.bounceCompleteDistFactor)
                     THEN [ps EXCEPT ![i].bouncing = FALSE] ELSE ps,
              acc |-> acc]
        ELSE IF Overlapping(p, o)
        THEN IF ShouldMerge(E, p, o)
             THEN [ps |-> [ps EXCEPT ![i].merging = TRUE,
                                     ![i].MergingWith = @ \cup {o.id},
                                     ![j].merging = IF p.id \in o.MergingWith THEN @ ELSE TRUE,
                                     ![j].MergingWith = @ \cup {p.id}],
                   acc |-> acc]
             ELSE [ps |-> [ps EXCEPT ![i].bouncing = TRUE,
                                     ![i].bouncingAgainst = o.id,
                                     ![i].Velocity = Reflect(@, BounceAxis(p, o)),
                                     ![j].bouncing = TRUE,
                                     ![j].bouncingAgainst = p.id],
                   acc |-> acc]
        ELSE [ps |-> ps,
              acc |-> [ct |-> acc.ct + 1,
                       nan |-> acc.nan \/ IsNaN(p.Position) \/ IsNaN(o.Position)]]

\* a pass of the inner loop that enters a merge on the side of p only (a
\* variant the symmetry of MergingWith must tell apart from PairStep)
PairStepOneWay(E, ps, i, j, acc) ==
    LET p == ps[i]
        o == ps[j]
    IN  IF i = j \/ o.id \in p.MergingWith THEN [ps |-> ps, acc |-> acc]
        ELSE IF p.bouncing /\ p.bouncingAgainst = o.id
        THEN [ps |-> IF Separated(p, o, E.bounceCompleteDistFactor)
                     THEN [ps EXCEPT ![i].bouncing = FALSE] ELSE ps,
              acc |-> acc]
        ELSE IF Overlapping(p, o)
        THEN IF ShouldMerge(E, p, o)
             THEN [ps |-> [ps EXCEPT ![i].merging = TRUE,
                                     ![i].MergingWith = @ \cup {o.id}],
                   acc |-> acc]
             ELSE [ps |-> [ps EXCEPT ![i].bouncing = TRUE,
                                     ![i].bouncingAgainst = o.id,
                                     ![i].Velocity = Reflect(@, BounceAxis(p, o))],
                   acc |-> acc]
        ELSE [ps |-> ps,
              acc |-> [ct |-> acc.ct + 1,
                       nan |-> acc.nan \/ IsNaN(p.Position) \/ IsNaN(o.Position)]]

\* One pass of the inner loop: p = ps[i] against o = ps[j].  acc.ct counts the
\* particles whose forces on p are summed, acc.nan records a not-a-number term.
PairStep(E, ps, i, j, acc) ==
    LET p == ps[i]
        o == ps[j]
    IN  IF i = j \/ o.id \in p.MergingWith THEN [ps |-> ps, acc |-> acc]
        ELSE IF p.bouncing /\ p.bouncingAgainst = o.id
        THEN [ps |-> IF Separated(p, o, E.bounceCompleteDistFactor)
                     THEN [ps EXCEPT ![i].bouncing = FALSE] ELSE ps,
              acc |-> acc]
        ELSE IF Overlapping(p, o)
        THEN IF ShouldMerge(E, p, o)
             THEN [ps |-> [ps EXCEPT ![i].merging = TRUE,
                                     ![i].MergingWith = @ \cup {o.id},
                                     ![j].merging = IF p.id \in o.MergingWith THEN @ ELSE TRUE,
                                     ![j].MergingWith = @ \cup {p.id}],
                   acc |-> acc]
             ELSE [ps |-> [ps EXCEPT ![i].bouncing = TRUE,
                                     ![i].bouncingAgainst = o.id,
                                     ![i].Velocity = Reflect(@, BounceAxis(p, o))],
                   acc |-> acc]
        ELSE [ps |-> ps,
              acc |-> [ct |-> acc.ct + 1,
                       nan |-> acc.nan \/ IsNaN(p.Position) \/ IsNaN(o.Position)]]

RECURSIVE InnerLoop(_, _, _, _, _)
InnerLoop(E, ps, i, j, acc) ==
    IF j > Len(ps) THEN [ps |-> ps, acc |-> acc]
    ELSE LET r == PairStep(E, ps, i, j, acc)
         IN  InnerLoop(E, r.ps, i, j + 1, r.acc)

\* g + c + f after the scaling by 1.0 / float64(ct): 0 * (1/0) is not-a-number
\* when nothing was summed; otherwise a vector the grid does not resolve
Acceleration(acc) == IF acc.ct = 0 \/ acc.nan THEN NaNVec ELSE <<0, 0>>

\* The outer loop from particle i on; cts collects each particle's ct.
RECURSIVE OuterLoop(_, _, _, _)
OuterLoop(E, ps, i, cts) ==
    IF i > Len(ps) THEN [ps |-> ps, cts |-> cts]
    ELSE LET r == InnerLoop(E, ps, i, 1, [ct |-> 0, nan |-> FALSE])
         IN  OuterLoop(E, [r.ps EXCEPT ![i].Velocity = VAdd(@, Acceleration(r.acc))],
                       i + 1, Append(cts, r.acc.ct))

updateParticleVelocities(E, ps) == OuterLoop(E, ps, 1, <<>>).ps

\* ct of every particle, in roster order, as one pass of the loops counts it
ContributorCounts(E, ps) == OuterLoop(E, ps, 1, <<>>).cts

updateParticlePositions(ps) == [i \in 1..Len(ps) |-> UpdatePosition(ps[i])]

----------------------------------------------------------------------------
(* UpdateParticles (physics/particle_update.go) *)

\* a roster left in the order it has (a variant the choice of the merge root
\* must tell apart from SortByMass)
KeepRosterOrder(ps) == ps

\* sort.Slice by decreasing mass: an insertion sort below 12 elements, which
\* keeps the order of particles of equal mass
RECURSIVE InsertByMass(_, _)
InsertByMass(sorted, p) ==
    IF sorted = <<>> THEN <<p>>
    ELSE IF p.Mass > sorted[Len(sorted)].Mass
    THEN Append(InsertByMass(SubSeq(sorted, 1, Len(sorted) - 1), p), sorted[Len(sorted)])
    ELSE Append(sorted, p)

RECURSIVE SortByMass(_)
SortByMass(ps) ==
    IF ps = <<>> THEN <<>>
    ELSE InsertByMass(SortByMass(SubSeq(ps, 1, Len(ps) - 1)), ps[Len(ps)])

\* the sum of f over the finite set S, from zero with plus
RECURSIVE SumOver(_, _, _, _)
SumOver(S, f(_), plus(_, _), zero) ==
    IF S = {} THEN zero
    ELSE LET x == CHOOSE y \in S : TRUE
         IN  plus(f(x), SumOver(S \ {x}, f, plus, zero))

IntPlus(a, b) == a + b

\* an address no particle of the roster has or refers to
FreshId(ps, taken) ==
    LET used == taken \cup {ps[k].id : k \in 1..Len(ps)}
                      \cup {ps[k].bouncingAgainst : k \in 1..Len(ps)}
                      \cup UNION {ps[k].MergingWith : k \in 1..Len(ps)}
    IN  CHOOSE n \in 1..(Cardinality(used) + 1) :
            n \notin used /\ \A m \in 1..(n - 1) : m \in used

\* a merge whose charges are plain means, not weighted by mass (a variant the
\* weighted means must tell apart from MergedParticle)
MergedPlainMean(ps, i, id) ==
    LET p == ps[i]
        with == {j \in 1..Len(ps) : ps[j].id \in p.MergingWith}
        MassAt(j) == ps[j].Mass
        CloseAt(j) == ps[j].CloseCharge
        FarAt(j) == ps[j].FarCharge
        count == Cardinality(with) + 1
    IN  [NewParticle(id, SumOver(with, MassAt, IntPlus, p.Mass),
                     RDivInt(SumOver(with, CloseAt, RAdd, p.CloseCharge), count),
                     RDivInt(SumOver(with, FarAt, RAdd, p.FarCharge), count),
                     p.Position)
            EXCEPT !.Velocity = p.Velocity,
                   !.trackHistory = p.trackHistory,
                   !.historySize = p.historySize,
                   !.positionHistory = p.positionHistory]

\* The particle merged from root p = ps[i] and the particles of p.MergingWith
MergedParticle(ps, i, id) ==
    LET p == ps[i]
        with == {j \in 1..Len(ps) : ps[j].id \in p.MergingWith}
        MassOf(j) == ps[j].Mass
        CloseOf(j) == RMulInt(ps[j].CloseCharge, ps[j].Mass)
        FarOf(j) == RMulInt(ps[j].FarCharge, ps[j].Mass)
        PosOf(j) == VScale(ps[j].Position, ps[j].Mass)
        VelOf(j) == VScaleDiv(ps[j].Velocity, ps[j].Mass, p.Mass)
        mass == SumOver(with, MassOf, IntPlus, p.Mass)
        closeCharge == SumOver(with, CloseOf, RAdd, RMulInt(p.CloseCharge, p.Mass))
        farCharge == SumOver(with, FarOf, RAdd, RMulInt(p.FarCharge, p.Mass))
        position == SumOver(with, PosOf, VAdd, VScale(p.Position, p.Mass))
        velocity == SumOver(with, VelOf, VAdd, p.Velocity)
    IN  [NewParticle(id, mass, RDivInt(closeCharge, mass), RDivInt(farCharge, mass),
                     VScaleDiv(position, 1, mass))
            EXCEPT !.Velocity = velocity,
                   !.trackHistory = p.trackHistory,
                   !.historySize = p.historySize,
                   !.positionHistory = p.positionHistory]

\* The loop over the sorted roster: m.ps the roster (partners lose their edge
\* to a root that consumed them), m.deleteList the indexes to delete,
\* m.addList the merged particles, and the returned merge summary.
RECURSIVE MergeLoop(_, _)
MergeLoop(m, i) ==
    IF i > Len(m.ps) THEN m
    ELSE LET p == m.ps[i]
         IN  IF ~p.merging THEN MergeLoop(m, i + 1)
             ELSE IF Cardinality(p.MergingWith) > 0
             THEN LET id == FreshId(m.ps, {m.addList[k].id : k \in 1..Len(m.addList)})
                      merged == MergedParticle(m.ps, i, id)
                  IN  MergeLoop(
                          [ps |-> [j \in 1..Len(m.ps) |->
                                      IF m.ps[j].id \in p.MergingWith
                                      THEN [m.ps[j] EXCEPT !.MergingWith = @ \ {p.id}]
                                      ELSE m.ps[j]],
                           deleteList |-> Append(m.deleteList, i),
                           addList |-> Append(m.addList, merged),
                           mergeOccurred |-> TRUE,
                           mergeMultiple |-> m.mergeMultiple \/ Cardinality(p.MergingWith) > 1,
                           mergeSource |-> p.id,
                           mergedResult |-> id],
                          i + 1)
             ELSE MergeLoop([m EXCEPT !.ps[i].merging = FALSE,
                                      !.deleteList = Append(@, i)],
                            i + 1)

\* sort.Slice of deleteList in decreasing order
RECURSIVE InsertDecreasing(_, _)
InsertDecreasing(sorted, x) ==
    IF sorted = <<>> THEN <<x>>
    ELSE IF x > sorted[Len(sorted)]
    THEN Append(InsertDecreasing(SubSeq(sorted, 1, Len(sorted) - 1), x), sorted[Len(sorted)])
    ELSE Append(sorted, x)

RECURSIVE SortDecreasing(_)
SortDecreasing(xs) ==
    IF xs = <<>> THEN <<>>
    ELSE InsertDecreasing(SortDecreasing(SubSeq(xs, 1, Len(xs) - 1)), xs[Len(xs)])

\* a deletion that stops after the first index of deleteList (a variant the
\* roster size after a merge must tell apart from DeleteAll)
DeleteOnlyFirst(ps, deleteList) ==
    IF deleteList = <<>> THEN ps
    ELSE SubSeq([ps EXCEPT ![Head(deleteList)] = ps[Len(ps)]], 1, Len(ps) - 1)

\* a deletion that drops the last item for each index without moving it first
\* (a variant the exact removal must tell apart from DeleteAll)
DeleteWithoutMove(ps, deleteList) ==
    SubSeq(ps, 1, Len(ps) - Len(deleteList))

\* for each index of deleteList: move the last item to it, drop the last item
RECURSIVE DeleteAll(_, _)
DeleteAll(ps, deleteList) ==
    IF deleteList = <<>> THEN ps
    ELSE LET i == Head(deleteList)
             moved == [ps EXCEPT ![i] = ps[Len(ps)]]
         IN  DeleteAll(SubSeq(moved, 1, Len(ps) - 1), Tail(deleteList))

NoMerge(ps) ==
    [ps |-> ps, deleteList |-> <<>>, addList |-> <<>>, mergeOccurred |-> FALSE,
     mergeMultiple |-> FALSE, mergeSource |-> NilId, mergedResult |-> NilId]

\* the region "Handle Mergers" on the sorted roster
HandleMergers(E, ps) ==
    IF E.AllowMerge
    THEN LET m == MergeLoop(NoMerge(ps), 1)
         IN  [m EXCEPT !.ps = DeleteAll(m.ps, SortDecreasing(m.deleteList)) \o m.addList]
    ELSE NoMerge(ps)

\* the region "Wall bounce" for one particle.  int() of a not-a-number
\* position differs between builds, and either result leaves the particle
\* with a not-a-number position and velocity.
WallBounce(E, p) ==
    IF IsNaN(p.Position) THEN p
    ELSE LET x == p.Position[1]
             y == p.Position[2]
             r == p.Radius
             low == r * Res
             high == (E.EnvironmentSize - r - 1) * Res
         IN  IF IntOf(x) - r < 0 \/ IntOf(x) + r > E.EnvironmentSize - 1
             THEN [p EXCEPT !.Position = <<Max(low, Min(x, high)), y>>,
                            !.Velocity = Reflect(@, 1)]
             ELSE IF IntOf(y) - r < 0 \/ IntOf(y) + r > E.EnvironmentSize - 1
             THEN [p EXCEPT !.Position = <<x, Max(low, Min(y, high))>>,
                            !.Velocity = Reflect(@, 2)]
             ELSE p

WallBounceAll(E, ps) ==
    IF E.WallBounce THEN [i \in 1..Len(ps) |-> WallBounce(E, ps[i])] ELSE ps

\* One tick on roster E.Particles: the new roster and the merge summary
UpdateParticles(E) ==
    LET moved == updateParticlePositions(updateParticleVelocities(E, E.Particles))
        m == HandleMergers(E, SortByMass(moved))
    IN  [m EXCEPT !.ps = WallBounceAll(E, m.ps)]

----------------------------------------------------------------------------
(* Program constants (main.go, physics engine) and the inputs explored *)

initialEnvironmentSize == 800
initialAverageMass == 250
initialHistLength == 15
initialLoopSpeed == 75

\* the largest roster generated (initialNumParticles is 50 in main.go)
MaxParticles == 3

\* a length in units as grid points, and a point given in half units
U(n) == n * Res

Half(hx, hy) == <<(hx * Res) \div 2, (hy * Res) \div 2>>

\* what GenerateParticles may draw for one particle: mass, close charge, far
\* charge and position (four of the draws of the random generator)
GenChoices ==
    { [mass |-> 150, closeCharge |-> <<1, 2>>, farCharge |-> <<1, 1>>,
       position |-> Half(200, 200)],
      [mass |-> 50, closeCharge |-> <<-1, 2>>, farCharge |-> <<1, 4>>,
       position |-> Half(206, 200)],
      [mass |-> 150, closeCharge |-> <<1, 4>>, farCharge |-> <<1, 2>>,
       position |-> Half(212, 200)],
      [mass |-> 50, closeCharge |-> <<-1, 4>>, farCharge |-> <<0, 1>>,
       position |-> <<0, 0>>] }

\* values the control surface hands to the handlers, within the ranges of its
\* sliders (400..2500, 2..1000, 15..1500, 0.., 3..100)
EnvironmentSizes == {400}
NumParticleChoices == 2..MaxParticles
AverageMasses == {200}
Strengths == { <<0, 1>> }
HistoryLengths == {3}
\* measured duration of a tick in ms
LoopTimes == {0, 100}

----------------------------------------------------------------------------
(* The engine and the application state *)

\* EngineData.Initialize, then the fields main sets
Initialize(E) ==
    [E EXCEPT !.GravityStrength = <<15, 1>>,
              !.CloseChargeStrength = <<150000000, 1>>,
              !.FarChargeStrength = <<15, 2>>,
              !.EnvironmentSize = initialEnvironmentSize,
              !.AllowMerge = TRUE,
              !.WallBounce = TRUE,
              !.bounceCompleteDistFactor = <<3, 2>>,
              !.mergeMassRatioThreshold = <<5, 2>>,
              !.mergeCloseChargeThreshold = <<1, 4>>]

\* the zero value of EngineData
ZeroEngine ==
    [GravityStrength |-> <<0, 1>>, CloseChargeStrength |-> <<0, 1>>,
     FarChargeStrength |-> <<0, 1>>, EnvironmentSize |-> 0,
     AllowMerge |-> FALSE, WallBounce |-> FALSE,
     bounceCompleteDistFactor |-> <<0, 1>>, mergeMassRatioThreshold |-> <<0, 1>>,
     mergeCloseChargeThreshold |-> <<0, 1>>,
     Particles |-> <<>>, initialParticles |-> <<>>]

\* SaveInitialParticleStates
SaveInitialParticleStates(E) ==
    [E EXCEPT !.initialParticles = [i \in 1..Len(E.Particles) |-> Clone(NilId, E.Particles[i])]]

\* a restore that copies the snapshot without its velocities (a variant the
\* reset must tell apart from RestoreInitialParticleStates)
RestoreWithoutVelocity(E) ==
    [E EXCEPT !.Particles =
        [i \in 1..Len(E.initialParticles) |->
            NewParticle(i, E.initialParticles[i].Mass, E.initialParticles[i].CloseCharge,
                        E.initialParticles[i].FarCharge, E.initialParticles[i].Position)]]

\* RestoreInitialParticleStates: every clone is a new particle
RestoreInitialParticleStates(E) ==
    [E EXCEPT !.Particles = [i \in 1..Len(E.initialParticles) |-> Clone(i, E.initialParticles[i])]]

\* a load that leaves the decoded particles as they are (a variant the
\* recomputed radius and the clamped charges must tell apart from
\* InitializeParticles)
InitializeNothing(E) == E

\* InitializeParticles
InitializeParticles(E) ==
    [E EXCEPT !.Particles = [i \in 1..Len(E.Particles) |-> initialize(E.Particles[i])]]

\* The handlers below work on a = [State |-> ..., Engine |-> ...]

HistoryTrailChanged(a, checked) ==
    [State |-> [a.State EXCEPT !.HistoryTrail = checked],
     Engine |-> [a.Engine EXCEPT !.Particles =
                    [i \in 1..Len(a.Engine.Particles) |->
                        [a.Engine.Particles[i] EXCEPT !.trackHistory = checked,
                                                      !.historySize = a.State.HistoryLength]]]]

\* a truncation that keeps the value oldest entries (a variant the order of
\* the history must tell apart from HistoryTrailLengthChanged)
HistoryTrailLengthKeepOldest(a, value) ==
    [State |-> [a.State EXCEPT !.HistoryLength = value],
     Engine |-> [a.Engine EXCEPT !.Particles =
                    [i \in 1..Len(a.Engine.Particles) |->
                        LET p == a.Engine.Particles[i]
                        IN  [p EXCEPT !.positionHistory =
                                          IF Len(@) > value THEN SubSeq(@, 1, value) ELSE @,
                                      !.historySize = value]]]]

\* positionHistory[len - value:] keeps the value newest entries (value >= 0)
HistoryTrailLengthChanged(a, value) ==
    [State |-> [a.State EXCEPT !.HistoryLength = value],
     Engine |-> [a.Engine EXCEPT !.Particles =
                    [i \in 1..Len(a.Engine.Particles) |->
                        LET p == a.Engine.Particles[i]
                            n == Len(p.positionHistory)
                        IN  [p EXCEPT !.positionHistory =
                                          IF n > value THEN SubSeq(@, n - value + 1, n) ELSE @,
                                      !.historySize = value]]]]

\* what one random draw of GenerateParticles may be, for the current settings:
\* mass within [max(4, 0.2 avg), 1.75 avg], position rand * EnvironmentSize
GenDraws(a) ==
    LET avg == a.State.AverageMass
        env == a.Engine.EnvironmentSize
        InRange(x) == IF env > 0 THEN 0 <= x /\ x < U(env) ELSE U(env) < x /\ x <= 0
    IN  { g \in GenChoices : /\ 5 * g.mass >= avg /\ g.mass >= 4 /\ 4 * g.mass <= 7 * avg
                             /\ InRange(g.position[1]) /\ InRange(g.position[2]) }

\* GenerateParticles with the given draws, one per particle
GenerateParticles(a, draws) ==
    LET fresh == [a EXCEPT !.Engine.Particles =
                     [i \in 1..a.State.NumberOfParticles |->
                         NewParticle(i, draws[i].mass, draws[i].closeCharge,
                                     draws[i].farCharge, draws[i].position)]]
        tracked == HistoryTrailLengthChanged(
                       HistoryTrailChanged(fresh, fresh.State.HistoryTrail),
                       fresh.State.HistoryLength)
    IN  [tracked EXCEPT !.Engine = SaveInitialParticleStates(@)]

App == [State |-> State, Engine |-> Engine]

\* the GUI thread is free to run a handler
Responsive == ~crashed /\ gui = "idle"

Running == ~crashed /\ ~paused

\* the controls the GUI enables only while paused
Idle == Responsive /\ paused

\* the locals of physicsLoop at position pc: the indexes of the two loops of
\* updateParticleVelocities and the count ct (acc); held is the particle that
\* Engine.Particles[i] was in a bounce against when its turn began
LoopAt(pc) ==
    [pc |-> pc, i |-> 0, j |-> 0, acc |-> [ct |-> 0, nan |-> FALSE], held |-> NilId]

\* the particle p is in a bounce against, if any
BouncePartner(p) == IF p.bouncing THEN p.bouncingAgainst ELSE NilId

Init ==
    /\ paused = TRUE
    /\ status = "none"
    /\ crashed = FALSE
    /\ ticks = 0
    /\ loop = LoopAt("none")
    /\ gui = "idle"
    /\ \E draws \in [1..MaxParticles ->
                        GenDraws([State |-> [AverageMass |-> initialAverageMass],
                                  Engine |-> [EnvironmentSize |-> initialEnvironmentSize]])] :
          LET a == GenerateParticles(
                       [State |-> [NumberOfParticles |-> MaxParticles,
                                   AverageMass |-> initialAverageMass,
                                   HistoryTrail |-> TRUE,
                                   HistoryLength |-> initialHistLength,
                                   PhysicsLoopSpeed |-> initialLoopSpeed,
                                   PhysicsEngine |-> "Engine"],
                        Engine |-> Initialize(ZeroEngine)],
                       draws)
          IN  State = a.State /\ Engine = a.Engine

\* one iteration of physicsLoop on a tick of the ticker, run without a step
\* of the GUI thread in between
Tick ==
    /\ Running
    /\ loop.pc = "select"
    /\ ticks < MaxTicks
    /\ LET m == UpdateParticles(Engine)
       IN  /\ Engine' = [Engine EXCEPT !.Particles = m.ps]
           /\ status' = IF m.mergeOccurred THEN "merging" ELSE status
    /\ \E loopTime \in LoopTimes :
          State' = IF loopTime > State.PhysicsLoopSpeed
                   THEN [State EXCEPT !.PhysicsLoopSpeed = (loopTime * 105) \div 100]
                   ELSE State
    /\ ticks' = ticks + 1
    /\ UNCHANGED <<paused, crashed>>
    /\ UNCHANGED <<loop, gui>>

\* PauseResumeEvent, the start and the stop of the physics loop taken as one step
PauseResumeEvent ==
    /\ Responsive
    /\ loop.pc = (IF paused THEN "none" ELSE "select")
    /\ paused' = ~paused
    /\ loop' = LoopAt(IF paused THEN "select" ELSE "none")
    /\ UNCHANGED <<Engine, State, status, crashed, ticks, gui>>

Regenerate(a) ==
    \E draws \in [1..a.State.NumberOfParticles -> GenDraws(a)] :
        LET b == GenerateParticles(a, draws)
        IN  State' = b.State /\ Engine' = b.Engine /\ ticks' = 0

RegenParticlesEvent ==
    /\ Idle
    /\ Regenerate(App)
    /\ UNCHANGED <<paused, status, crashed>>
    /\ UNCHANGED <<loop, gui>>

EnvironmentSizeChangedEvent(value) ==
    /\ Idle
    /\ LET a == [App EXCEPT !.Engine.EnvironmentSize = value]
       IN  IF paused THEN Regenerate(a)
           ELSE State' = a.State /\ Engine' = a.Engine /\ ticks' = ticks
    /\ UNCHANGED <<paused, status, crashed>>
    /\ UNCHANGED <<loop, gui>>

NumParticlesChangedEvent(value) ==
    /\ Idle
    /\ LET a == [App EXCEPT !.State.NumberOfParticles = value]
       IN  IF paused THEN Regenerate(a)
           ELSE State' = a.State /\ Engine' = a.Engine /\ ticks' = ticks
    /\ UNCHANGED <<paused, status, crashed>>
    /\ UNCHANGED <<loop, gui>>

AverageMassChangedEvent(value) ==
    /\ Idle
    /\ LET a == [App EXCEPT !.State.AverageMass = value]
       IN  IF paused THEN Regenerate(a)
           ELSE State' = a.State /\ Engine' = a.Engine /\ ticks' = ticks
    /\ UNCHANGED <<paused, status, crashed>>
    /\ UNCHANGED <<loop, gui>>

GravityStrengthChangedEvent(value) ==
    /\ Responsive
    /\ Engine' = [Engine EXCEPT !.GravityStrength = value]
    /\ UNCHANGED <<State, paused, status, crashed, ticks>>
    /\ UNCHANGED <<loop, gui>>

CloseChargeStrengthChangedEvent(value) ==
    /\ Responsive
    /\ Engine' = [Engine EXCEPT !.CloseChargeStrength = value]
    /\ UNCHANGED <<State, paused, status, crashed, ticks>>
    /\ UNCHANGED <<loop, gui>>

FarChargeStrengthChangedEvent(value) ==
    /\ Responsive
    /\ Engine' = [Engine EXCEPT !.FarChargeStrength = value]
    /\ UNCHANGED <<State, paused, status, crashed, ticks>>
    /\ UNCHANGED <<loop, gui>>

AllowMergeChangedEvent(checked) ==
    /\ Responsive
    /\ Engine' = [Engine EXCEPT !.AllowMerge = checked]
    /\ UNCHANGED <<State, paused, status, crashed, ticks>>
    /\ UNCHANGED <<loop, gui>>

WallBounceChangedEvent(checked) ==
    /\ Responsive
    /\ Engine' = [Engine EXCEPT !.WallBounce = checked]
    /\ UNCHANGED <<State, paused, status, crashed, ticks>>
    /\ UNCHANGED <<loop, gui>>

HistoryTrailChangedEvent(checked) ==
    /\ Responsive
    /\ LET a == HistoryTrailChanged(App, checked)
       IN  State' = a.State /\ Engine' = a.Engine
    /\ UNCHANGED <<paused, status, crashed, ticks>>
    /\ UNCHANGED <<loop, gui>>

HistoryTrailLengthChangedEvent(value) ==
    /\ Responsive
    /\ LET a == HistoryTrailLengthChanged(App, value)
       IN  State' = a.State /\ Engine' = a.Engine
    /\ UNCHANGED <<paused, status, crashed, ticks>>
    /\ UNCHANGED <<loop, gui>>

PhysicsLoopSpeedChangedEvent(value) ==
    /\ Responsive
    /\ State' = [State EXCEPT !.PhysicsLoopSpeed = value]
    /\ UNCHANGED <<Engine, paused, status, crashed, ticks>>
    /\ UNCHANGED <<loop, gui>>

ResetEnvironmentEvent ==
    /\ Idle
    /\ LET restored == [App EXCEPT !.Engine = RestoreInitialParticleStates(@)]
           hold == State.HistoryLength
           cleared == HistoryTrailLengthChanged(restored, 0)
           a == HistoryTrailChanged([cleared EXCEPT !.State.HistoryLength = hold],
                                    State.HistoryTrail)
       IN  State' = a.State /\ Engine' = a.Engine
    /\ ticks' = 0
    /\ UNCHANGED <<paused, status, crashed>>
    /\ UNCHANGED <<loop, gui>>

----------------------------------------------------------------------------
(* The physics loop as a goroutine beside the GUI thread: PauseResumeEvent in *)
(* its two halves, and one tick of physicsLoop step by step.  The handlers    *)
(* run on the GUI thread and share Engine and State with the goroutine        *)
(* without a lock.                                                            *)

\* PauseResumeEvent while paused: new ticker, new channel, go physicsLoop()
ResumeRequest ==
    /\ Idle
    /\ loop.pc = "none"
    /\ paused' = FALSE
    /\ loop' = LoopAt("select")
    /\ UNCHANGED <<Engine, State, status, crashed, ticks, gui>>

\* a pause that returns without the send on physicsDoneChan (a variant the
\* single physics loop must tell apart from PauseRequest)
PauseRequestNoWait ==
    /\ Responsive
    /\ ~paused
    /\ paused' = TRUE
    /\ UNCHANGED <<Engine, State, status, crashed, ticks, loop, gui>>

\* PauseResumeEvent while running: paused = true, then the send on the
\* unbuffered physicsDoneChan, which blocks until physicsLoop receives
PauseRequest ==
    /\ Responsive
    /\ ~paused
    /\ paused' = TRUE
    /\ gui' = "sending"
    /\ UNCHANGED <<Engine, State, status, crashed, ticks, loop>>

\* select takes the case <-physicsDoneChan: physicsLoop returns, the send
\* completes, PauseResumeEvent stops the ticker and returns true
physicsLoopDone ==
    /\ loop.pc = "select"
    /\ gui = "sending"
    /\ loop' = LoopAt("none")
    /\ gui' = "idle"
    /\ UNCHANGED <<Engine, State, paused, status, crashed, ticks>>

\* select takes the case <-physicsTicker.C and paused is set: physicsLoop
\* returns without receiving from physicsDoneChan
physicsLoopPaused ==
    /\ loop.pc = "select"
    /\ paused
    /\ loop' = LoopAt("none")
    /\ UNCHANGED <<Engine, State, paused, status, crashed, ticks, gui>>

\* select takes the case <-physicsTicker.C: UpdateParticles begins
physicsLoopTick ==
    /\ loop.pc = "select"
    /\ ~paused
    /\ ticks < MaxTicks
    /\ loop' = [LoopAt("pairs") EXCEPT !.i = 1, !.j = 1,
                                       !.held = BouncePartner(Engine.Particles[1])]
    /\ UNCHANGED <<Engine, State, paused, status, crashed, ticks, gui>>

\* updateParticleVelocities: one pass of the inner loop, p = Particles[i]
\* against o = Particles[j]; after the last o the averaged acceleration is
\* added to the velocity of p and the outer loop moves on
updateVelocityPair ==
    /\ loop.pc = "pairs"
    /\ LET n == Len(Engine.Particles)
           r == PairStep(Engine, Engine.Particles, loop.i, loop.j, loop.acc)
           summed == [r.ps EXCEPT ![loop.i].Velocity = VAdd(@, Acceleration(r.acc))]
       IN  IF loop.j < n
           THEN /\ Engine' = [Engine EXCEPT !.Particles = r.ps]
                /\ loop' = [loop EXCEPT !.j = @ + 1, !.acc = r.acc]
           ELSE /\ Engine' = [Engine EXCEPT !.Particles = summed]
                /\ loop' = IF loop.i < n
                           THEN [LoopAt("pairs") EXCEPT
                                    !.i = loop.i + 1, !.j = 1,
                                    !.held = BouncePartner(summed[loop.i + 1])]
                           ELSE LoopAt("positions")
    /\ UNCHANGED <<State, paused, status, crashed, ticks, gui>>

\* updateParticlePositions, then the sort by mass
updatePositionsAndSort ==
    /\ loop.pc = "positions"
    /\ Engine' = [Engine EXCEPT !.Particles = SortByMass(updateParticlePositions(@))]
    /\ loop' = LoopAt("mergers")
    /\ UNCHANGED <<State, paused, status, crashed, ticks, gui>>

\* the region "Handle Mergers", with Engine.AllowMerge as it is now
handleMergers ==
    /\ loop.pc = "mergers"
    /\ LET m == HandleMergers(Engine, Engine.Particles)
       IN  /\ Engine' = [Engine EXCEPT !.Particles = m.ps]
           /\ status' = IF m.mergeOccurred THEN "merging" ELSE status
    /\ loop' = LoopAt("walls")
    /\ UNCHANGED <<State, paused, crashed, ticks, gui>>

\* the region "Wall bounce"; UpdateParticles returns, physicsLoop draws the
\* roster, adapts the loop speed and goes back to its select
wallBounceAndDraw ==
    /\ loop.pc = "walls"
    /\ Engine' = [Engine EXCEPT !.Particles = WallBounceAll(Engine, @)]
    /\ \E loopTime \in LoopTimes :
          State' = IF loopTime > State.PhysicsLoopSpeed
                   THEN [State EXCEPT !.PhysicsLoopSpeed = (loopTime * 105) \div 100]
                   ELSE State
    /\ ticks' = ticks + 1
    /\ loop' = LoopAt("select")
    /\ UNCHANGED <<paused, status, crashed, gui>>

\* the steps of the goroutine outside the merge region
physicsLoop ==
    \/ physicsLoopDone
    \/ physicsLoopPaused
    \/ physicsLoopTick
    \/ updateVelocityPair
    \/ updatePositionsAndSort
    \/ wallBounceAndDraw

\* the goroutine leaves the merge region with nothing to aggregate: the step
\* of handleMergers that changes the goroutine's position alone. It is
\* possible exactly when handleMergers is, so fairness on it says that the
\* goroutine does not stay in the region for ever
mergersLeft ==
    /\ loop.pc = "mergers"
    /\ loop' = LoopAt("walls")
    /\ UNCHANGED <<Engine, State, paused, status, crashed, ticks, gui>>

----------------------------------------------------------------------------
(* Persisted snapshots (SaveStateEvent, LoadStateEvent) *)

\* a particle of a snapshot: the serialized fields of particleData
Stored(mass, closeCharge, farCharge, position, velocity) ==
    [mass |-> mass, closeCharge |-> closeCharge, farCharge |-> farCharge,
     position |-> position, velocity |-> velocity]

\* the content of a well-formed snapshot: state.Data with its engine section
Snapshot(environmentSize, allowMerge, wallBounce, historyTrail, historyLength, particles) ==
    [NumberOfParticles |-> Len(particles), AverageMass |-> 100,
     HistoryTrail |-> historyTrail, HistoryLength |-> historyLength,
     PhysicsLoopSpeed |-> 75,
     engine |-> [GravityStrength |-> <<15, 1>>, CloseChargeStrength |-> <<150000000, 1>>,
                 FarChargeStrength |-> <<15, 2>>, EnvironmentSize |-> environmentSize,
                 AllowMerge |-> allowMerge, WallBounce |-> wallBounce,
                 Particles |-> particles]]

\* masses 100 and 10, overlapping, close charges of opposite sign
FileTwoBody ==
    Snapshot(800, TRUE, TRUE, TRUE, 3,
             << Stored(100, <<1, 10>>, <<1, 1>>, Half(200, 200), Half(1, 0)),
                Stored(10, <<-1, 10>>, <<0, 1>>, Half(204, 200), Half(-1, 0)) >>)

\* two particles of mass 100 and opposite close charges, closing in
FileEqual ==
    Snapshot(800, TRUE, TRUE, TRUE, 3,
             << Stored(100, <<1, 2>>, <<1, 2>>, Half(200, 200), Half(2, 0)),
                Stored(100, <<-1, 2>>, <<1, 2>>, Half(214, 200), Half(-2, 0)) >>)

\* one particle partly past the right wall, one heading into the top left corner
FileWall ==
    Snapshot(800, FALSE, TRUE, FALSE, 3,
             << Stored(100, <<2, 1>>, <<2, 1>>, Half(1597, 800), Half(10, 0)),
                Stored(100, <<-2, 1>>, <<-1, 1>>, Half(8, 8), Half(-3, -3)) >>)

\* a snapshot edited by hand to hold a negative environment size
FileNegative ==
    Snapshot(-1, TRUE, TRUE, TRUE, 3,
             << Stored(100, <<1, 2>>, <<1, 2>>, Half(200, 200), <<0, 0>>),
                Stored(100, <<1, 2>>, <<1, 2>>, Half(400, 400), <<0, 0>>) >>)

\* one particle of mass 100 (radius 3) alone, at x = 800 - 3/2, partly past the
\* right wall, moving right at (5, 0)
FileSingle ==
    Snapshot(800, TRUE, TRUE, TRUE, 3,
             << Stored(100, <<1, 2>>, <<1, 2>>, Half(1597, 800), Half(10, 0)) >>)

\* masses 150 and 50, overlapping, the first with a close charge of zero and
\* the second with a positive one
FileZero ==
    Snapshot(800, TRUE, TRUE, FALSE, 3,
             << Stored(150, <<0, 1>>, <<1, 2>>, Half(200, 200), <<0, 0>>),
                Stored(50, <<1, 2>>, <<1, 2>>, Half(204, 200), <<0, 0>>) >>)

\* four particles of mass 100 and the same close charge in two overlapping
\* pairs far from each other: the first pair moves mostly along x, the second
\* mostly along y
FileSkew ==
    Snapshot(800, TRUE, TRUE, FALSE, 3,
             << Stored(100, <<1, 2>>, <<1, 2>>, Half(200, 200), Half(4, 2)),
                Stored(100, <<1, 2>>, <<1, 2>>, Half(208, 200), Half(-2, 0)),
                Stored(100, <<1, 2>>, <<1, 2>>, Half(600, 600), Half(2, 4)),
                Stored(100, <<1, 2>>, <<1, 2>>, Half(600, 608), Half(0, -2)) >>)

\* three particles of mass 100 (radius 3) in an environment of 800, walls on:
\* the first at rest at x = 796.5, its circle reaching 799.5; the second at
\* x = 798.5 moving right at (5, 0); the third at x = 1.5 moving at (-1, 1)
FileEdge ==
    Snapshot(800, FALSE, TRUE, FALSE, 3,
             << Stored(100, <<1, 2>>, <<1, 2>>, Half(1593, 800), <<0, 0>>),
                Stored(100, <<1, 2>>, <<1, 2>>, Half(1597, 600), Half(10, 0)),
                Stored(100, <<1, 2>>, <<1, 2>>, Half(3, 400), Half(-2, 2)) >>)

\* a chain stored lightest first, merging and history on: C (mass 50) overlaps
\* B (mass 100), B overlaps A (mass 150), A and C do not overlap; neighbours
\* have close charges of opposite sign; the fourth particle is far away
FileChain ==
    Snapshot(800, TRUE, TRUE, TRUE, 3,
             << Stored(50, <<1, 2>>, <<1, 2>>, Half(418, 400), <<0, 0>>),
                Stored(100, <<-1, 2>>, <<1, 2>>, Half(410, 400), <<0, 0>>),
                Stored(150, <<1, 2>>, <<1, 2>>, Half(400, 400), <<0, 0>>),
                Stored(10, <<1, 2>>, <<1, 2>>, Half(1200, 1200), <<0, 0>>) >>)

\* merging on: p and o (mass 150, close charge +1/2) overlap, q (mass 50,
\* close charge -1/2) overlaps o and not p, the fourth particle is far away
FileOrphan ==
    Snapshot(800, TRUE, TRUE, FALSE, 3,
             << Stored(150, <<1, 2>>, <<1, 2>>, Half(200, 200), <<0, 0>>),
                Stored(150, <<1, 2>>, <<1, 2>>, Half(210, 200), <<0, 0>>),
                Stored(50, <<-1, 2>>, <<1, 2>>, Half(218, 200), <<0, 0>>),
                Stored(10, <<1, 2>>, <<1, 2>>, Half(1200, 1200), <<0, 0>>) >>)

\* four particles of mass 100, merging off: the first overlaps the second and
\* the third, the third leaves to the left at (-10, 0), the fourth is far away
FileTrio ==
    Snapshot(800, FALSE, TRUE, FALSE, 3,
             << Stored(100, <<1, 2>>, <<1, 2>>, Half(200, 200), <<0, 0>>),
                Stored(100, <<1, 2>>, <<1, 2>>, Half(204, 200), <<0, 0>>),
                Stored(100, <<1, 2>>, <<1, 2>>, Half(190, 200), Half(-20, 0)),
                Stored(100, <<1, 2>>, <<1, 2>>, Half(600, 600), <<0, 0>>) >>)

\* the files a user may pick: what opening and decoding them yields
Files ==
    { [kind |-> "unreadable"], [kind |-> "malformed"],
      [kind |-> "noEngine",
       data |-> [NumberOfParticles |-> 2, AverageMass |-> 100, HistoryTrail |-> FALSE,
                 HistoryLength |-> 3, PhysicsLoopSpeed |-> 75]],
      [kind |-> "ok", data |-> FileTwoBody],
      [kind |-> "ok", data |-> FileEqual],
      [kind |-> "ok", data |-> FileWall],
      [kind |-> "ok", data |-> FileNegative],
      [kind |-> "ok", data |-> FileSingle] }

\* the Particle the decoder makes of a stored particle, at address id
Decoded(id, sp) ==
    [ZeroParticle(id, sp.position) EXCEPT !.Mass = sp.mass, !.CloseCharge = sp.closeCharge,
                                          !.FarCharge = sp.farCharge, !.Velocity = sp.velocity]

\* the EngineData the decoder makes of the engine section: the fields without
\* a json name keep their zero value
DecodedEngine(e) ==
    [ZeroEngine EXCEPT !.GravityStrength = e.GravityStrength,
                       !.CloseChargeStrength = e.CloseChargeStrength,
                       !.FarChargeStrength = e.FarChargeStrength,
                       !.EnvironmentSize = e.EnvironmentSize,
                       !.AllowMerge = e.AllowMerge,
                       !.WallBounce = e.WallBounce,
                       !.Particles = [i \in 1..Len(e.Particles) |-> Decoded(i, e.Particles[i])]]

\* the state.Data the decoder makes, without its engine pointer
DecodedState(d, engine) ==
    [NumberOfParticles |-> d.NumberOfParticles, AverageMass |-> d.AverageMass,
     HistoryTrail |-> d.HistoryTrail, HistoryLength |-> d.HistoryLength,
     PhysicsLoopSpeed |-> d.PhysicsLoopSpeed, PhysicsEngine |-> engine]

LoadStateEvent(file) ==
    /\ Idle
    /\ IF file.kind \in {"unreadable", "malformed"}
       THEN /\ status' = "load failed"
            /\ UNCHANGED <<Engine, State, crashed, ticks>>
       ELSE IF file.kind = "noEngine"
       \* *State = *data, then physics.Engine = *data.PhysicsEngine panics on nil
       THEN /\ State' = DecodedState(file.data, "nil")
            /\ crashed' = TRUE
            /\ UNCHANGED <<Engine, status, ticks>>
       ELSE LET loaded == [State |-> DecodedState(file.data, "Engine"),
                           Engine |-> SaveInitialParticleStates(
                                          InitializeParticles(DecodedEngine(file.data.engine)))]
                a == HistoryTrailLengthChanged(
                         HistoryTrailChanged(loaded, file.data.HistoryTrail),
                         file.data.HistoryLength)
            IN  /\ State' = a.State
                /\ Engine' = a.Engine
                /\ status' = "loaded"
                /\ ticks' = 0
                /\ UNCHANGED crashed
    /\ UNCHANGED paused
    /\ UNCHANGED <<loop, gui>>

\* json cannot encode not-a-number: Encode fails and the file stays truncated
SaveStateEvent ==
    /\ Idle
    /\ status' = IF \E i \in 1..Len(Engine.Particles) :
                        IsNaN(Engine.Particles[i].Position) \/ IsNaN(Engine.Particles[i].Velocity)
                 THEN "save failed" ELSE "saved"
    /\ UNCHANGED <<Engine, State, paused, crashed, ticks>>
    /\ UNCHANGED <<loop, gui>>

----------------------------------------------------------------------------
(* Specifications *)

Next ==
    \/ Tick
    \/ PauseResumeEvent
    \/ RegenParticlesEvent
    \/ \E value \in EnvironmentSizes : EnvironmentSizeChangedEvent(value)
    \/ \E value \in NumParticleChoices : NumParticlesChangedEvent(value)
    \/ \E value \in AverageMasses : AverageMassChangedEvent(value)
    \/ \E value \in Strengths : GravityStrengthChangedEvent(value)
    \/ \E value \in Strengths : CloseChargeStrengthChangedEvent(value)
    \/ \E value \in Strengths : FarChargeStrengthChangedEvent(value)
    \/ \E checked \in BOOLEAN : AllowMergeChangedEvent(checked)
    \/ \E checked \in BOOLEAN : WallBounceChangedEvent(checked)
    \/ \E checked \in BOOLEAN : HistoryTrailChangedEvent(checked)
    \/ \E value \in HistoryLengths : HistoryTrailLengthChangedEvent(value)
    \/ \E value \in LoopTimes : PhysicsLoopSpeedChangedEvent(value)
    \/ ResetEnvironmentEvent
    \/ \E file \in Files : LoadStateEvent(file)
    \/ SaveStateEvent

Spec == Init /\ [][Next]_vars

\* the collisions of a run: generation, loading, reset, merge switch and ticks
NextCollide ==
    \/ Tick
    \/ PauseResumeEvent
    \/ RegenParticlesEvent
    \/ \E checked \in BOOLEAN : AllowMergeChangedEvent(checked)
    \/ ResetEnvironmentEvent
    \/ \E file \in Files : LoadStateEvent(file)

SpecCollide == Init /\ [][NextCollide]_vars

\* the same runs from the generated rosters of Init, without regeneration
NextMerge ==
    \/ Tick
    \/ PauseResumeEvent
    \/ \E checked \in BOOLEAN : AllowMergeChangedEvent(checked)
    \/ ResetEnvironmentEvent
    \/ \E file \in Files : LoadStateEvent(file)

SpecMerge == Init /\ [][NextMerge]_vars

\* the goroutine beside the GUI thread, the merge switch used at any moment
NextLoop ==
    \/ ResumeRequest
    \/ PauseRequest
    \/ physicsLoopDone
    \/ physicsLoopPaused
    \/ physicsLoopTick
    \/ updateVelocityPair
    \/ updatePositionsAndSort
    \/ handleMergers
    \/ wallBounceAndDraw
    \/ \E checked \in BOOLEAN : AllowMergeChangedEvent(checked)

SpecLoop == Init /\ [][NextLoop]_vars

\* pausing and resuming a run
NextPause ==
    \/ ResumeRequest
    \/ PauseRequest
    \/ physicsLoopDone
    \/ physicsLoopPaused
    \/ physicsLoopTick
    \/ updateVelocityPair
    \/ updatePositionsAndSort
    \/ handleMergers
    \/ wallBounceAndDraw

\* the goroutine is scheduled: a step of it that stays possible is taken
SpecPause == Init /\ [][NextPause]_vars /\ WF_vars(physicsLoop) /\ WF_vars(mergersLeft)

\* no tick is in progress
BetweenTicks == loop.pc \in {"none", "select"}

\* the same with the merge switch used between ticks only
NextBetween ==
    \/ ResumeRequest
    \/ PauseRequest
    \/ physicsLoopDone
    \/ physicsLoopPaused
    \/ physicsLoopTick
    \/ updateVelocityPair
    \/ updatePositionsAndSort
    \/ handleMergers
    \/ wallBounceAndDraw
    \/ (BetweenTicks /\ \E checked \in BOOLEAN : AllowMergeChangedEvent(checked))

SpecBetween == Init /\ [][NextBetween]_vars

\* a number of particles past the rosters of Init, asked for on the slider
CrowdSizes == {MaxParticles + 1}

\* the file picked before such a run
CrowdFiles == { [kind |-> "ok", data |-> FileZero] }

\* runs of a roster regenerated with more particles, or loaded, before the
\* simulation is resumed, the merge switch used between ticks only
NextCrowd ==
    \/ \E value \in CrowdSizes : NumParticlesChangedEvent(value)
    \/ \E file \in CrowdFiles : LoadStateEvent(file)
    \/ ResumeRequest
    \/ physicsLoopTick
    \/ updateVelocityPair
    \/ updatePositionsAndSort
    \/ handleMergers
    \/ wallBounceAndDraw
    \/ (BetweenTicks /\ \E checked \in BOOLEAN : AllowMergeChangedEvent(checked))

SpecCrowd == Init /\ [][NextCrowd]_vars

\* the history of moving particles: a loaded roster, the history switched on
\* and its length moved between two values of the slider
FifoLengths == {3, 4}

NextFifo ==
    \/ LoadStateEvent([kind |-> "ok", data |-> FileSkew])
    \/ PauseResumeEvent
    \/ Tick
    \/ \E checked \in BOOLEAN : HistoryTrailChangedEvent(checked)
    \/ \E value \in FifoLengths : HistoryTrailLengthChangedEvent(value)

SpecFifo == Init /\ [][NextFifo]_vars

\* the files picked before a run that is followed step by step
StepFiles ==
    { [kind |-> "ok", data |-> FileSkew],
      [kind |-> "ok", data |-> FileTrio],
      [kind |-> "ok", data |-> FileEdge],
      [kind |-> "ok", data |-> FileChain],
      [kind |-> "ok", data |-> FileOrphan] }

\* runs followed step by step from the rosters of Init or from a loaded file,
\* the merge switch used between ticks only
NextSteps ==
    \/ \E file \in StepFiles : LoadStateEvent(file)
    \/ ResumeRequest
    \/ physicsLoopTick
    \/ updateVelocityPair
    \/ updatePositionsAndSort
    \/ handleMergers
    \/ wallBounceAndDraw
    \/ (BetweenTicks /\ \E checked \in BOOLEAN : AllowMergeChangedEvent(checked))

SpecSteps == Init /\ [][NextSteps]_vars

----------------------------------------------------------------------------
(* Properties *)

\* the step is a tick of the physics loop (only Tick advances the counter)
Ticked == ticks' = ticks + 1

\* the sum of the masses of roster ps
TotalMass(ps) == SumOver({k \in 1..Len(ps) : TRUE}, LAMBDA k : ps[k].Mass, IntPlus, 0)

\* C1: for every tick with allowMerge enabled, the sum of the masses of the
\* roster after the merge aggregation equals the sum before the tick, for
\* every pattern of pending merges (two-party, one root with several partners,
\* a particle pending with two partners that are not pending with each other).
MergeConservesMass ==
    [][(Ticked /\ Engine.AllowMerge)
          => TotalMass(Engine'.Particles) = TotalMass(Engine.Particles)]_vars

\* C2: in every reachable state, two overlapping particles of equal mass are
\* classified as a bounce and never as a merge, whatever their close charges
\* and whatever the allowMerge setting.
EqualMassAlwaysBounce ==
    \A i, j \in 1..Len(Engine.Particles) :
        LET p == Engine.Particles[i]
            o == Engine.Particles[j]
        IN  (i # j /\ p.Mass = o.Mass /\ Overlapping(p, o)) => ~ShouldMerge(Engine, p, o)

\* C3: in the force step, a particle whose count of contributing neighbours
\* is zero gets a zero force contribution: its velocity does not become
\* not-a-number.
ZeroContributorsKeepVelocity ==
    \A i \in 1..Len(Engine.Particles) :
        ContributorCounts(Engine, Engine.Particles)[i] = 0
            => ~IsNaN(updateParticleVelocities(Engine, Engine.Particles)[i].Velocity)

\* particle p lies inside the environment of E on both axes
Inside(E, p) ==
    /\ ~IsNaN(p.Position)
    /\ \A axis \in {1, 2} :
          /\ p.Position[axis] - p.Radius * Res >= 0
          /\ p.Position[axis] + p.Radius * Res <= E.EnvironmentSize * Res

\* C4: with wallBounce enabled, after every tick every particle of the roster
\* lies inside the environment on both axes, whatever its position and velocity
\* before the tick (a particle outside on both axes at once included).
WallsContainEveryParticle ==
    [][(Ticked /\ Engine.WallBounce)
          => \A i \in 1..Len(Engine'.Particles) : Inside(Engine', Engine'.Particles[i])]_vars

\* C5: for every particle of the roster, len(positionHistory) <= historySize,
\* in every state reachable by generation, load, reset, changes of the history
\* settings and ticks (merged particles included).
HistoryBounded ==
    \A i \in 1..Len(Engine.Particles) :
        Len(Engine.Particles[i].positionHistory) <= Engine.Particles[i].historySize

\* C5, the case: a tracked particle holds as many positions as its size allows
\* after more ticks than that (the oldest was evicted), or a particle made by
\* a merge carries the history of its root
HistoryFilled ==
    \E i \in 1..Len(Engine.Particles) :
        LET p == Engine.Particles[i]
        IN  /\ p.trackHistory /\ p.historySize > 0
            /\ Len(p.positionHistory) = p.historySize
            /\ ticks > p.historySize

\* C6: a load that fails (unreadable file, malformed content, content without
\* the engine section) is reported as an error and leaves the engine and the
\* application state as they were.
FailedLoadKeepsState ==
    [][\A file \in Files :
          (file.kind # "ok" /\ LoadStateEvent(file))
              => (status' = "load failed" /\ UNCHANGED <<Engine, State>>)]_vars

\* C7: a request to set an invalid configuration value, here the negative
\* environment size a snapshot asks for, is rejected and leaves the engine
\* state unchanged.
InvalidConfigurationRejected ==
    [][\A file \in Files :
          (file.kind = "ok" /\ file.data.engine.EnvironmentSize < 0 /\ LoadStateEvent(file))
              => UNCHANGED Engine]_vars

\* roster ps is the snapshot snap, particle by particle, with no history and
\* no merge or bounce state
RosterIsSnapshot(ps, snap) ==
    /\ Len(ps) = Len(snap)
    /\ \A i \in 1..Len(ps) :
          /\ ps[i].Mass = snap[i].Mass
          /\ ps[i].CloseCharge = snap[i].CloseCharge
          /\ ps[i].FarCharge = snap[i].FarCharge
          /\ ps[i].Position = snap[i].Position
          /\ ps[i].Velocity = snap[i].Velocity
          /\ ps[i].positionHistory = <<>>
          /\ ~ps[i].merging /\ ps[i].MergingWith = {}
          /\ ~ps[i].bouncing /\ ps[i].bouncingAgainst = NilId

\* C8: reset-to-initial makes the roster the snapshot saved at the last
\* generation or load (count, mass, charges, position, velocity; empty
\* history, no merge or bounce state), and neither a tick nor a reset alters
\* the snapshot, so a second reset gives the same roster.
ResetRestoresSnapshot ==
    [][/\ Ticked => Engine'.initialParticles = Engine.initialParticles
       /\ ResetEnvironmentEvent
             => /\ RosterIsSnapshot(Engine'.Particles, Engine.initialParticles)
                /\ Engine'.initialParticles = Engine.initialParticles]_vars

\* C8, the case: the two-body snapshot was loaded ("loaded"), a tick merged
\* its particles ("merging", one particle left), and a reset brought both back
ResetAfterMerge ==
    /\ status = "merging" /\ ticks = 0
    /\ Len(Engine.Particles) = 2
    /\ Engine.Particles[1].Mass = 100 /\ Engine.Particles[2].Mass = 10
    /\ RosterIsSnapshot(Engine.Particles, Engine.initialParticles)

\* the mass-weighted average of charge f over the particles S of roster ps
WeightedMean(ps, S, f(_)) ==
    RDivInt(SumOver(S, LAMBDA k : RMulInt(f(ps[k]), ps[k].Mass), RAdd, RInt(0)),
            SumOver(S, LAMBDA k : ps[k].Mass, IntPlus, 0))

CloseChargeOf(p) == p.CloseCharge

FarChargeOf(p) == p.FarCharge

\* C9: the particle a merge creates has the mass-weighted average of the close
\* charges of the particles it was made of (the root and its partners) as its
\* closeCharge, likewise for farCharge, and both lie in [-1, 1] and [0, 1].
MergedChargesAreWeightedMeans ==
    [][Ticked =>
          \A k \in 1..Len(Engine'.Particles) :
              LET q == Engine'.Particles[k]
                  old == Engine.Particles
              IN  q.id \notin {old[i].id : i \in 1..Len(old)}
                      => /\ \E S \in SUBSET (1..Len(old)) :
                               /\ Cardinality(S) >= 2
                               /\ q.Mass = SumOver(S, LAMBDA i : old[i].Mass, IntPlus, 0)
                               /\ q.CloseCharge = WeightedMean(old, S, CloseChargeOf)
                               /\ q.FarCharge = WeightedMean(old, S, FarChargeOf)
                         /\ ~RLess(q.CloseCharge, RInt(-1)) /\ ~RLess(RInt(1), q.CloseCharge)
                         /\ ~RLess(q.FarCharge, RInt(0)) /\ ~RLess(RInt(1), q.FarCharge)]_vars

\* C9, the case: masses 150 (close charge 1/2) and 50 (close charge -1/2)
\* merged into mass 200 with close charge 1/4
MergedChargeSeen ==
    \E i \in 1..Len(Engine.Particles) :
        Engine.Particles[i].Mass = 200 /\ Engine.Particles[i].CloseCharge = <<1, 4>>

\* the pairs of overlapping particles that satisfy the merge rule
MergePairs ==
    {pr \in (1..Len(Engine.Particles)) \X (1..Len(Engine.Particles)) :
        /\ pr[1] < pr[2]
        /\ Overlapping(Engine.Particles[pr[1]], Engine.Particles[pr[2]])
        /\ ShouldMerge(Engine, Engine.Particles[pr[1]], Engine.Particles[pr[2]])}

\* both particles of the pair are in a bounce against each other
MidBounce(pr) ==
    LET p == Engine.Particles[pr[1]]
        o == Engine.Particles[pr[2]]
    IN  /\ p.bouncing /\ p.bouncingAgainst = o.id
        /\ o.bouncing /\ o.bouncingAgainst = p.id

\* the tick removed both particles of pair pr and added one of their summed
\* mass: the roster is one particle shorter
MergedInto(pr) ==
    LET p == Engine.Particles[pr[1]]
        o == Engine.Particles[pr[2]]
        old == {Engine.Particles[i].id : i \in 1..Len(Engine.Particles)}
        new == Engine'.Particles
    IN  /\ Len(new) = Len(Engine.Particles) - 1
        /\ \A k \in 1..Len(new) : new[k].id \notin {p.id, o.id}
        /\ \E k \in 1..Len(new) : new[k].id \notin old /\ new[k].Mass = p.Mass + o.Mass

\* C10 as stated: when exactly two overlapping particles satisfy the merge
\* rule, one tick removes both and adds one particle whose mass is their sum:
\* the roster size decreases by exactly one.
TwoPartyMerge ==
    [][(Ticked /\ Cardinality(MergePairs) = 1)
          => \A pr \in MergePairs : MergedInto(pr)]_vars

\* C10, amended: the same, for two particles that are not both in a bounce
\* against each other already (such a pair is skipped until it has separated).
TwoPartyMergeOnContact ==
    [][(Ticked /\ Cardinality(MergePairs) = 1)
          => \A pr \in MergePairs : ~MidBounce(pr) => MergedInto(pr)]_vars

\* C10, the case: the loaded masses 100 and 10 merged into one particle of 110
TwoBodyMerged ==
    /\ ticks = 1
    /\ Len(Engine.Particles) = 1
    /\ Engine.Particles[1].Mass = 110

\* the history settings at work on generated, loaded and merged particles
NextHistory ==
    \/ Tick
    \/ PauseResumeEvent
    \/ \E checked \in BOOLEAN : HistoryTrailChangedEvent(checked)
    \/ \E value \in HistoryLengths : HistoryTrailLengthChangedEvent(value)
    \/ ResetEnvironmentEvent
    \/ \E file \in Files : LoadStateEvent(file)

SpecHistory == Init /\ [][NextHistory]_vars

\* the roster is a single particle with velocity (5, 0) whose circle reaches
\* past the right wall, and wallBounce is enabled
SingleAtRightWall ==
    /\ Engine.WallBounce
    /\ Len(Engine.Particles) = 1
    /\ LET p == Engine.Particles[1]
       IN  /\ p.Velocity = <<U(5), 0>>
           /\ ~IsNaN(p.Position)
           /\ p.Position[1] < U(Engine.EnvironmentSize)
           /\ p.Position[1] + U(p.Radius) > U(Engine.EnvironmentSize - 1)

\* C11: one tick on a roster holding a single particle with velocity (5, 0)
\* that is partly past the right wall, with wallBounce enabled, leaves the
\* particle with velocity.x = -5 and position.x = environmentSize - radius - 1.
RightWallTurnsParticleBack ==
    [][(Ticked /\ SingleAtRightWall)
          => LET q == Engine'.Particles[1]
             IN  /\ q.Velocity = <<-U(5), 0>>
                 /\ ~IsNaN(q.Position)
                 /\ q.Position[1] = U(Engine.EnvironmentSize - q.Radius - 1)]_vars

\* roster ps is in order of non-increasing mass
MassDescending(ps) == \A i \in 1..(Len(ps) - 1) : ps[i].Mass >= ps[i + 1].Mass

\* C12: after every tick, ticks that merged particles included, the roster
\* handed to the drawing of the particles is in order of non-increasing mass.
RosterDrawnByDescendingMass ==
    [][Ticked => MassDescending(Engine'.Particles)]_vars

\* no particle of roster ps is pending in a merge
NothingPending(ps) == \A i \in 1..Len(ps) : ~ps[i].merging /\ ps[i].MergingWith = {}

\* C13: a change of allowMerge asked for while the simulation runs is applied
\* between ticks and never inside a tick in progress, so the merge aggregation
\* of a tick reads the allowMerge its classification read: when the
\* aggregation of a tick is over, no merge flagged is left pending.
MergeSwitchAppliedBetweenTicks ==
    [][/\ (Engine'.AllowMerge # Engine.AllowMerge) => BetweenTicks
       /\ (loop.pc = "mergers" /\ loop'.pc = "walls") => NothingPending(Engine'.Particles)]_vars

\* what the claim holds of a particle: its values and its merge, bounce and
\* history state
AsLoaded(p) ==
    [Mass |-> p.Mass, Radius |-> p.Radius, CloseCharge |-> p.CloseCharge,
     FarCharge |-> p.FarCharge, Position |-> p.Position, Velocity |-> p.Velocity,
     merging |-> p.merging, MergingWith |-> p.MergingWith, bouncing |-> p.bouncing,
     bouncingAgainst |-> p.bouncingAgainst, positionHistory |-> p.positionHistory]

\* the particle a load is to make of the stored particle sp: stored mass,
\* position and velocity, close charge within [-1, 1], far charge within
\* [0, 1], radius of the mass, nothing pending
LoadedParticle(sp) ==
    [Mass |-> sp.mass, Radius |-> RadiusFrom(sp.mass, 1),
     CloseCharge |-> IF RLess(sp.closeCharge, RInt(-1)) THEN RInt(-1)
                     ELSE IF RLess(RInt(1), sp.closeCharge) THEN RInt(1)
                     ELSE sp.closeCharge,
     FarCharge |-> IF RLess(sp.farCharge, RInt(0)) THEN RInt(0)
                   ELSE IF RLess(RInt(1), sp.farCharge) THEN RInt(1)
                   ELSE sp.farCharge,
     Position |-> sp.position, Velocity |-> sp.velocity,
     merging |-> FALSE, MergingWith |-> {}, bouncing |-> FALSE,
     bouncingAgainst |-> NilId, positionHistory |-> <<>>]

\* roster ps holds the particles of the snapshot data as a load is to make them
HoldsSnapshot(ps, data) ==
    /\ Len(ps) = Len(data.engine.Particles)
    /\ \A i \in 1..Len(ps) : AsLoaded(ps[i]) = LoadedParticle(data.engine.Particles[i])

\* C14: a successful load leaves the roster holding the particles of the
\* snapshot (stored mass, position and velocity, clamped charges, radius of the
\* mass, no merge, bounce or history) and keeps them as the initial state; no
\* later step but a load changes the initial state, and a reset makes the
\* roster the initial state again.
LoadThenResetGiveSnapshot ==
    [][/\ \A file \in Files :
              (file.kind = "ok" /\ LoadStateEvent(file))
                  => /\ HoldsSnapshot(Engine'.Particles, file.data)
                     /\ HoldsSnapshot(Engine'.initialParticles, file.data)
       /\ (\A file \in Files : ~LoadStateEvent(file))
              => Engine'.initialParticles = Engine.initialParticles
       /\ ResetEnvironmentEvent
              => /\ Len(Engine'.Particles) = Len(Engine.initialParticles)
                 /\ \A i \in 1..Len(Engine.initialParticles) :
                        AsLoaded(Engine'.Particles[i]) = AsLoaded(Engine.initialParticles[i])]_vars

\* C14, the case: the two particles of a loaded snapshot have merged in a tick
\* (the status still tells) and a reset has brought the roster back to the
\* snapshot
ResetAfterMergeGivesLoadedRoster ==
    /\ status = "merging"
    /\ ticks = 0
    /\ HoldsSnapshot(Engine.Particles, FileTwoBody)
    /\ HoldsSnapshot(Engine.initialParticles, FileTwoBody)

\* the pass of the inner loop on Particles[i] and Particles[j] meets a new
\* collision: not merging with each other, not in a bounce against each
\* other, closer than the sum of the radii
NewCollision(i, j) ==
    LET p == Engine.Particles[i]
        o == Engine.Particles[j]
    IN  /\ i # j
        /\ o.id \notin p.MergingWith
        /\ ~(p.bouncing /\ p.bouncingAgainst = o.id)
        /\ Overlapping(p, o)

\* the step is a pass of the inner loop of updateParticleVelocities
PairPassed == loop.pc = "pairs" /\ loop' # loop

PauseCompletes ==
    (gui = "sending") ~> (gui = "idle" /\ paused /\ loop.pc = "none")

\* C17: at every point of a tick up to the merge aggregation, MergingWith is
\* symmetric (A is in the set of B exactly if B is in the set of A), and a
\* particle whose set is not empty has merging = true.
MergingWithSymmetric ==
    loop.pc \in {"pairs", "positions", "mergers"}
        => /\ \A i, j \in 1..Len(Engine.Particles) :
                 Engine.Particles[j].id \in Engine.Particles[i].MergingWith
                     <=> Engine.Particles[i].id \in Engine.Particles[j].MergingWith
           /\ \A i \in 1..Len(Engine.Particles) :
                 Engine.Particles[i].MergingWith # {} => Engine.Particles[i].merging

\* C17, the case: the velocity step is over and a particle is pending in a
\* merge with two others, each of which holds it in its own set
ChainPendingBeforeAggregation ==
    /\ loop.pc = "mergers"
    /\ \E i \in 1..Len(Engine.Particles) :
          /\ Cardinality(Engine.Particles[i].MergingWith) = 2
          /\ \A j \in 1..Len(Engine.Particles) :
                 Engine.Particles[j].id \in Engine.Particles[i].MergingWith
                     => Engine.Particles[i].id \in Engine.Particles[j].MergingWith

\* C18: in every reachable state, for any sequence of ticks and of allowMerge
\* changes made between ticks, no particle is in a bounce against a particle
\* that is in its MergingWith set.
NeverBouncingAndMergingWithSame ==
    \A i \in 1..Len(Engine.Particles) :
        LET p == Engine.Particles[i]
        IN  ~(p.bouncing /\ p.bouncingAgainst \in p.MergingWith)

\* the sign of a charge: -1, 0 or 1
Sign(a) == IF a[1] > 0 THEN 1 ELSE IF a[1] < 0 THEN -1 ELSE 0

\* the merge rule as the claim words it, a zero charge having the sign 0
MergeRule(E, p, o) ==
    /\ E.AllowMerge
    /\ Max(p.Mass, o.Mass) * E.mergeMassRatioThreshold[2] >
           E.mergeMassRatioThreshold[1] * Min(p.Mass, o.Mass)
    /\ \/ Sign(p.CloseCharge) # Sign(o.CloseCharge)
       \/ RLess(RAdd(RAbs(p.CloseCharge), RAbs(o.CloseCharge)), E.mergeCloseChargeThreshold)

\* C19: a new collision of p and o is classified as a merge exactly if
\* allowMerge is on, the mass ratio is above mergeMassRatioThreshold and the
\* close charges differ in sign or sum (in absolute value) to less than
\* mergeCloseChargeThreshold, a charge of zero having the sign zero; in every
\* other case it is classified as a bounce.
ClassifiedByMergeRule ==
    [][(PairPassed /\ NewCollision(loop.i, loop.j))
          => LET p == Engine.Particles[loop.i]
                 o == Engine.Particles[loop.j]
                 q == Engine'.Particles[loop.i]
             IN  IF MergeRule(Engine, p, o)
                 THEN q.merging /\ o.id \in q.MergingWith
                 ELSE /\ q.bouncing /\ q.bouncingAgainst = o.id
                      /\ o.id \notin q.MergingWith]_vars

\* C20: a pair is classified on first contact only: when p was in a bounce
\* against o as its turn began and the two have not separated beyond
\* bounceCompleteDistFactor times their radii, the pass of the inner loop on
\* (p, o) does not classify them again (no new bounce of p off o, no merge),
\* also when p overlaps a third particle in the same turn.
ClassifiedOnFirstContactOnly ==
    [][(/\ PairPassed
        /\ loop.i # loop.j
        /\ loop.held = Engine.Particles[loop.j].id
        /\ ~Separated(Engine.Particles[loop.i], Engine.Particles[loop.j],
                      Engine.bounceCompleteDistFactor))
          => /\ Engine'.Particles[loop.i].bouncingAgainst
                    = Engine.Particles[loop.i].bouncingAgainst
             /\ Engine'.Particles[loop.i].MergingWith
                    = Engine.Particles[loop.i].MergingWith]_vars


\* the velocity v with the component along axis negated
Negated(v, axis) ==
    IF IsNaN(v) THEN v ELSE IF axis = 1 THEN <<-v[1], v[2]>> ELSE <<v[1], -v[2]>>

\* C21: classifying the collision of p with o as a bounce changes p alone: p
\* is then bouncing against o and one component of its velocity is negated (y
\* when |p.vx| + |o.vx| > |p.vy| + |o.vy|, else x); o and every other particle
\* are left as they were.
BounceChangesOnlyP ==
    [][(PairPassed /\ NewCollision(loop.i, loop.j)
          /\ ~ShouldMerge(Engine, Engine.Particles[loop.i], Engine.Particles[loop.j]))
          => LET old == Engine.Particles
                 new == Engine'.Particles
                 p == old[loop.i]
                 o == old[loop.j]
                 xMost == /\ ~IsNaN(p.Velocity) /\ ~IsNaN(o.Velocity)
                          /\ Abs(p.Velocity[1]) + Abs(o.Velocity[1])
                                 > Abs(p.Velocity[2]) + Abs(o.Velocity[2])
             IN  /\ Len(new) = Len(old)
                 /\ new[loop.i].bouncing /\ new[loop.i].bouncingAgainst = o.id
                 /\ loop.j < Len(old)
                        => new[loop.i] = [p EXCEPT !.bouncing = TRUE,
                                                   !.bouncingAgainst = o.id,
                                                   !.Velocity = Negated(p.Velocity,
                                                                    IF xMost THEN 2 ELSE 1)]
                 /\ \A k \in 1..Len(old) : k # loop.i => new[k] = old[k]]_vars

\* C21, the case: a particle moving down and to the right has bounced off a
\* particle that still moves as the file says and is in no bounce
BouncedOffUntouchedPartner ==
    /\ loop.pc = "pairs"
    /\ \E i, j \in 1..Len(Engine.Particles) :
          LET p == Engine.Particles[i]
              o == Engine.Particles[j]
          IN  /\ p.bouncing /\ p.bouncingAgainst = o.id
              /\ p.Velocity = Half(4, -2)
              /\ o.Velocity = Half(-2, 0)
              /\ ~o.bouncing


\* C22: once p is bouncing against o, the pair contributes no force to p and
\* p.bouncing stays true until the tick in which the distance of the two is
\* above bounceCompleteDistFactor times the sum of the radii; in that tick
\* p.bouncing becomes false and the pair still contributes no force.  Stated
\* on the pass of the inner loop on (p, o) of a turn that p began in a bounce
\* against o.
BounceHeldUntilSeparated ==
    [][(PairPassed /\ loop.i # loop.j /\ loop.held = Engine.Particles[loop.j].id)
          => LET p == Engine.Particles[loop.i]
                 o == Engine.Particles[loop.j]
             IN  /\ PairStep(Engine, Engine.Particles, loop.i, loop.j, loop.acc).acc.ct
                        = loop.acc.ct
                 /\ Engine'.Particles[loop.i].bouncing
                        = ~Separated(p, o, Engine.bounceCompleteDistFactor)]_vars


\* the step is the wall region of a tick, the step is its merge region
WallsHandled == loop.pc = "walls" /\ loop'.pc = "select"

MergersHandled == loop.pc = "mergers" /\ loop'.pc = "walls"

\* the circle of p crosses an edge of the environment on the axis: the
\* condition in real numbers
CrossesEdge(E, p, axis) ==
    \/ p.Position[axis] - p.Radius * Res < 0
    \/ p.Position[axis] + p.Radius * Res > (E.EnvironmentSize - 1) * Res

\* the value of [radius, environmentSize - radius - 1] nearest to x
NearestInside(E, p, x) ==
    IF x < p.Radius * Res THEN p.Radius * Res
    ELSE IF x > (E.EnvironmentSize - p.Radius - 1) * Res
    THEN (E.EnvironmentSize - p.Radius - 1) * Res
    ELSE x

\* C23: with wallBounce enabled, the wall step of a tick gives a particle
\* whose circle crosses the left or right edge (position.x - radius < 0 or
\* position.x + radius > environmentSize - 1) the negated velocity.x, the same
\* velocity.y and the nearest position.x in [radius, environmentSize - radius
\* - 1], and leaves a particle that crosses no edge unchanged.
WallStepReflectsAtSides ==
    [][(WallsHandled /\ Engine.WallBounce)
          => \A i \in 1..Len(Engine.Particles) :
                LET p == Engine.Particles[i]
                    q == Engine'.Particles[i]
                IN  (~IsNaN(p.Position) /\ ~IsNaN(p.Velocity))
                       => /\ CrossesEdge(Engine, p, 1)
                             => q = [p EXCEPT
                                       !.Velocity = <<-p.Velocity[1], p.Velocity[2]>>,
                                       !.Position = <<NearestInside(Engine, p, p.Position[1]),
                                                      p.Position[2]>>]
                          /\ (~CrossesEdge(Engine, p, 1) /\ ~CrossesEdge(Engine, p, 2))
                             => q = p]_vars


\* The aggregations the merge region makes on the sorted roster ps from index
\* i on, in the order of the roster: the root and the partners it holds in
\* MergingWith when its turn comes (a partner loses its edge to the root that
\* aggregated it).
RECURSIVE Aggregations(_, _)
Aggregations(ps, i) ==
    IF i > Len(ps) THEN <<>>
    ELSE LET p == ps[i]
         IN  IF p.merging /\ p.MergingWith # {}
             THEN << [root |-> p,
                      partners |-> {ps[j] : j \in {k \in 1..Len(ps) :
                                                     ps[k].id \in p.MergingWith}}] >>
                  \o Aggregations([j \in 1..Len(ps) |->
                                      IF ps[j].id \in p.MergingWith
                                      THEN [ps[j] EXCEPT !.MergingWith = @ \ {p.id}]
                                      ELSE ps[j]],
                                  i + 1)
             ELSE Aggregations(ps, i + 1)

\* C24: in every merge the root has a mass greater than or equal to the mass
\* of every partner aggregated with it, and the new particle appended for it
\* is a new particle with the trackHistory, historySize and positionHistory of
\* that root.
MergeRootIsHeaviest ==
    [][(MergersHandled /\ Engine.AllowMerge)
          => LET old == Engine.Particles
                 new == Engine'.Particles
                 aggs == Aggregations(old, 1)
                 base == Len(new) - Len(aggs)
             IN  /\ base >= 0
                 /\ \A k \in 1..Len(aggs) :
                        LET p == aggs[k].root
                            n == new[base + k]
                        IN  /\ \A o \in aggs[k].partners : p.Mass >= o.Mass
                            /\ n.id \notin {old[x].id : x \in 1..Len(old)}
                            /\ n.trackHistory = p.trackHistory
                            /\ n.historySize = p.historySize
                            /\ n.positionHistory = p.positionHistory]_vars

\* C24, the case: the chain C - B - A has merged; A was the root of B, B the
\* root of C, and each new particle holds the position its root had before
\* the position update
ChainMergedFromRoots ==
    /\ loop.pc = "walls"
    /\ \E i, j \in 1..Len(Engine.Particles) :
          /\ Engine.Particles[i].Mass = 250
          /\ Engine.Particles[i].positionHistory = << Half(400, 400) >>
          /\ Engine.Particles[j].Mass = 150
          /\ Engine.Particles[j].positionHistory = << Half(410, 400) >>


\* the n newest entries of history h, in their order
Newest(h, n) == IF Len(h) > n THEN [x \in 1..n |-> h[Len(h) - n + x]] ELSE h

\* C25: the position history is a FIFO of the positions held before the
\* updates.  A tick appends to the history of every particle with
\* trackHistory on the position it held before the tick, and drops the oldest
\* entry when the length then exceeds historySize; it leaves the history of a
\* particle with trackHistory off as it is.  A change of the history length
\* to n leaves every particle the n newest entries of its history in their
\* order.
HistoryIsFifo ==
    [][LET old == Engine.Particles
           new == Engine'.Particles
       IN  /\ Ticked
              => \A i \in 1..Len(old) : \A k \in 1..Len(new) :
                    (new[k].id = old[i].id)
                       => LET h == old[i].positionHistory
                              g == new[k].positionHistory
                          IN  IF old[i].trackHistory
                              THEN /\ g # <<>> => g[Len(g)] = old[i].Position
                                   /\ Len(h) < old[i].historySize
                                          => g = h \o << old[i].Position >>
                                   /\ Len(h) >= old[i].historySize
                                          => /\ Len(g) = Len(h)
                                             /\ \A x \in 1..(Len(g) - 1) : g[x] = h[x + 1]
                              ELSE g = h
           /\ (~paused /\ ~paused' /\ ticks' = ticks)
              => /\ Len(new) = Len(old)
                 /\ \A i \in 1..Len(old) :
                        new[i].positionHistory
                           = Newest(old[i].positionHistory, State'.HistoryLength)]_vars

\* C25, the case: after four ticks the history of a moving particle is full
\* at three entries, all different from each other and from its position
ThreeNewestKept ==
    /\ ticks = 4
    /\ State.HistoryLength = 3
    /\ \E i \in 1..Len(Engine.Particles) :
          LET p == Engine.Particles[i]
              h == p.positionHistory
          IN  /\ p.trackHistory /\ Len(h) = 3
              /\ ~IsNaN(p.Position)
              /\ Cardinality({h[1], h[2], h[3], p.Position}) = 4


\* C26: merge state does not outlive the tick.  The merge region removes
\* every particle that is flagged as merging when it begins, and between
\* ticks no particle of the roster has merging set or a non-empty MergingWith.
MergeStateEndsWithTick ==
    [][LET old == Engine.Particles
           new == Engine'.Particles
       IN  /\ MergersHandled
              => \A i \in 1..Len(old) :
                    old[i].merging => old[i].id \notin {new[k].id : k \in 1..Len(new)}
           /\ BetweenTicks'
              => \A k \in 1..Len(new) : ~new[k].merging /\ new[k].MergingWith = {}]_vars


\* C27: the three tuning constants keep the values Initialize gave them
\* (bounceCompleteDistFactor 1.5, mergeMassRatioThreshold 2.5,
\* mergeCloseChargeThreshold 0.25) in every state reached by configuration
\* changes, regenerations, resets, saves and loads.
TuningConstantsKept ==
    /\ Engine.bounceCompleteDistFactor = <<3, 2>>
    /\ Engine.mergeMassRatioThreshold = <<5, 2>>
    /\ Engine.mergeCloseChargeThreshold = <<1, 4>>


\* C28: in every state between ticks a particle with bouncing = true has its
\* bouncingAgainst partner in the roster; none is left bouncing against a
\* particle a merge has removed.
BouncePartnerInRoster ==
    BetweenTicks
       => \A i \in 1..Len(Engine.Particles) :
             Engine.Particles[i].bouncing
                => \E k \in 1..Len(Engine.Particles) :
                      Engine.Particles[k].id = Engine.Particles[i].bouncingAgainst


\* C29: at most one tick executes at any time and none starts while the
\* simulation is paused.  Whenever the GUI thread is free with the simulation
\* paused (a pause request has returned, or no run has begun: the states in
\* which a resume can start a physics loop) no physics loop is alive: none
\* waits in its select and no call of UpdateParticles is in progress.
NoLoopWhilePaused ==
    (Responsive /\ paused) => loop.pc = "none"

\* C29, the case: a pause request made after some ticks has returned and the
\* physics loop has ended
PausedAfterTicks ==
    /\ Responsive /\ paused
    /\ loop.pc = "none"
    /\ ticks >= 2


\* the orders in which the indexes of D may stand in deleteList
OrdersOf(D) ==
    {s \in [1..Cardinality(D) -> D] : \A a, b \in 1..Cardinality(D) : s[a] = s[b] => a = b}

\* roster r holds the particle x exactly once
HoldsOnce(r, x) == Cardinality({k \in 1..Len(r) : r[k] = x}) = 1

\* C30: the removal of the merge region is exact.  When the region runs, the
\* roster after the removal and the append holds every particle that was not
\* flagged as merging exactly once and unchanged, none of the flagged ones,
\* and each new merged particle exactly once (one per aggregation, under an
\* address no earlier particle had); and for every set of indexes of the
\* roster in every order, sorting them in decreasing order and moving the
\* last item into each leaves exactly the particles at the other indexes,
\* each once (the last index and adjacent indexes included).
RemovalIsExact ==
    [][(MergersHandled /\ Engine.AllowMerge)
          => LET old == Engine.Particles
                 new == Engine'.Particles
                 flagged == {i \in 1..Len(old) : old[i].merging}
                 oldIds == {old[i].id : i \in 1..Len(old)}
                 added == {k \in 1..Len(new) : new[k].id \notin oldIds}
             IN  /\ \A i \in 1..Len(old) :
                        IF i \in flagged
                        THEN \A k \in 1..Len(new) : new[k].id # old[i].id
                        ELSE HoldsOnce(new, old[i])
                 /\ Cardinality(added) = Len(Aggregations(old, 1))
                 /\ \A k \in added : HoldsOnce(new, new[k])
                 /\ Len(new) = Len(old) - Cardinality(flagged) + Cardinality(added)
                 /\ \A D \in SUBSET (1..Len(old)) : \A order \in OrdersOf(D) :
                        LET r == DeleteAll(old, SortDecreasing(order))
                        IN  /\ Len(r) = Len(old) - Cardinality(D)
                            /\ \A i \in (1..Len(old)) \ D : HoldsOnce(r, old[i])]_vars

\* C30, the case: the chain of three particles at the first three indexes of
\* a roster of four has been removed; the fourth particle was moved to the
\* front and the two merged particles follow it
ChainRemovedFromRoster ==
    /\ loop.pc = "walls"
    /\ Len(Engine.Particles) = 3
    /\ Engine.Particles[1].Mass = 10
    /\ Engine.Particles[2].Mass = 250
    /\ Engine.Particles[3].Mass = 150

====
